---- MODULE Spec2Model ----
(***************************************************************************)
(* Model of the client-side cache of the habit tracker: the two-tier       *)
(* CacheService (src/lib/cacheService.ts), the cache manager               *)
(* (src/lib/cacheManager.ts), the data-access wrappers that call it and    *)
(* the AuthProvider's auth-state listener.                                 *)
(*                                                                         *)
(* Strings are sequences of one-character strings, so that the code's      *)
(* String.includes / String.startsWith are computed on the characters.     *)
(***************************************************************************)
EXTENDS Integers, Sequences, FiniteSets, TLC

VARIABLES
    memoryCache,     \* CacheService.memoryCache: Map, in insertion order
    localStorage,    \* window.localStorage: storage key -> stored string
    pendingFetches,  \* CacheService.pendingFetches: key -> promise
    stats,           \* CacheService.stats: totalEntries (get reports what it adds to the counters)
    promises,        \* fetcher invocations that have not settled
    now,             \* Date.now()
    previousUidRef,  \* AuthProvider: previousUidRef.current
    user,            \* AuthProvider: React state `user` (its uid)
    authState,       \* what the auth provider last delivered to the listener
    suspended,       \* listener invocations waiting in `await clearAllCache()`
    lastOp,          \* the most recent call, and the count its console.log reports
    lastSet,         \* the last direct cache.set call, while only get and time followed it
    logoutRun        \* AuthProvider.logout: where the running call stands, what it has called

vars == <<memoryCache, localStorage, pendingFetches, stats, promises, now,
          previousUidRef, user, authState, suspended, lastOp, lastSet, logoutRun>>

\* JavaScript's null where a data value is expected
Null == "null"

\* JavaScript's null where a user identifier is expected (falsy, like '')
NoUid == <<>>

----------------------------------------------------------------------------
(* String primitives *)

\* String.prototype.startsWith
startsWith(s, p) ==
    /\ Len(p) <= Len(s)
    /\ SubSeq(s, 1, Len(p)) = p

\* String.prototype.includes
includes(s, p) ==
    \E i \in 0..(Len(s) - Len(p)) : SubSeq(s, i + 1, i + Len(p)) = p

\* Array.prototype.includes on an array of strings
arrayIncludes(arr, x) == \E i \in 1..Len(arr) : arr[i] = x

\* One decimal digit as a character
Digit(d) == <<"0", "1", "2", "3", "4", "5", "6", "7", "8", "9">>[d + 1]

\* Number -> string, as a template literal or Array.join converts it
RECURSIVE NumStr(_)
NumStr(n) == IF n < 10 THEN <<Digit(n)>> ELSE NumStr(n \div 10) \o <<Digit(n % 10)>>

\* String(n).padStart(2, '0')
Pad2(n) == IF n < 10 THEN <<"0">> \o NumStr(n) ELSE NumStr(n)

\* Number(s) of a string of decimal digits
RECURSIVE Number(_)
Number(s) ==
    IF Len(s) = 0 THEN 0
    ELSE Number(SubSeq(s, 1, Len(s) - 1)) * 10
         + (CHOOSE d \in 0..9 : Digit(d) = s[Len(s)])

\* String.prototype.split('-')
RECURSIVE splitDash(_)
splitDash(s) ==
    IF \A i \in 1..Len(s) : s[i] # "-" THEN <<s>>
    ELSE LET i == CHOOSE j \in 1..Len(s) :
                      s[j] = "-" /\ \A l \in 1..(j - 1) : s[l] # "-"
         IN  <<SubSeq(s, 1, i - 1)>> \o splitDash(SubSeq(s, i + 1, Len(s)))

\* Array.prototype.join(':')
RECURSIVE joinColon(_)
joinColon(parts) ==
    IF Len(parts) = 0 THEN <<>>
    ELSE IF Len(parts) = 1 THEN parts[1]
    ELSE parts[1] \o <<":">> \o joinColon(Tail(parts))

----------------------------------------------------------------------------
(* Constants of cacheService.ts *)

CACHE_PREFIX == <<"h", "t", "-", "c", "a", "c", "h", "e">>
DEFAULT_TTL == 5 * 60 * 1000
MAX_MEMORY_ENTRIES == 100
STORAGE_TTL_MULTIPLIER == 2

CacheTTL ==
    [GOALS         |-> 30 * 60 * 1000,
     HABITS        |-> 10 * 60 * 1000,
     TODOS_DAILY   |-> 5 * 60 * 1000,
     TODOS_WEEKLY  |-> 10 * 60 * 1000,
     TODOS_MONTHLY |-> 15 * 60 * 1000,
     JOURNAL       |-> 5 * 60 * 1000,
     PROFILE       |-> 60 * 60 * 1000,
     ENTRY_DATES   |-> 10 * 60 * 1000]

\* CacheService.buildKey: [type, uid, ...parts].join(':')
buildKey(uid, type, parts) == joinColon(<<type, uid>> \o parts)

\* CacheService.getStorageKey
getStorageKey(key) == CACHE_PREFIX \o <<":">> \o key

buildTodoCacheKey(uid, period, periodId) ==
    buildKey(uid, <<"t", "o", "d", "o">>, <<period, periodId>>)

buildHabitsCacheKey(uid, year, month) ==
    buildKey(uid, <<"h", "a", "b", "i", "t", "s">>, <<NumStr(year) \o <<"-">> \o NumStr(month)>>)

buildGoalsCacheKey(uid) ==
    buildKey(uid, <<"g", "o", "a", "l", "s">>, <<<<"c", "u", "r", "r", "e", "n", "t">>>>)

buildJournalCacheKey(uid, dateStr) ==
    buildKey(uid, <<"j", "o", "u", "r", "n", "a", "l">>, <<dateStr>>)

buildEntryDatesCacheKey(uid, year, month) ==
    buildKey(uid, <<"e", "n", "t", "r", "y", "D", "a", "t", "e", "s">>,
             <<NumStr(year) \o <<"-">> \o NumStr(month)>>)

\* The options of a call after the defaults of the destructuring are applied
CacheOptions(ttl, useMemory, useStorage, tags, swr) ==
    [ttl |-> ttl, useMemory |-> useMemory, useStorage |-> useStorage,
     tags |-> tags, staleWhileRevalidate |-> swr]

----------------------------------------------------------------------------
(* The JavaScript Map that holds the memory tier: a sequence of            *)
(* [key, entry] in insertion order.                                        *)

MapKeys(m) == {m[i].key : i \in 1..Len(m)}

MapHas(m, k) == \E i \in 1..Len(m) : m[i].key = k

MapIndex(m, k) == CHOOSE i \in 1..Len(m) : m[i].key = k

MapGet(m, k) == m[MapIndex(m, k)].entry

\* Map.prototype.set: an existing key keeps its place, a new one goes last
MapSet(m, k, e) ==
    IF MapHas(m, k)
    THEN [m EXCEPT ![MapIndex(m, k)] = [key |-> k, entry |-> e]]
    ELSE Append(m, [key |-> k, entry |-> e])

\* Map.prototype.delete
MapDelete(m, k) == SelectSeq(m, LAMBDA x : x.key # k)

\* Storage.removeItem
removeItem(ls, sk) == [x \in (DOMAIN ls) \ {sk} |-> ls[x]]

\* Storage.setItem
setItem(ls, sk, v) == [x \in (DOMAIN ls) \cup {sk} |-> IF x = sk THEN v ELSE ls[x]]

\* Storage.getItem finds a string
hasItem(ls, sk) == sk \in DOMAIN ls

\* JSON.stringify of a cache entry: the text of an object with these fields
stringify(entry) ==
    [json |-> "object", data |-> entry.data, timestamp |-> entry.timestamp,
     ttl |-> entry.ttl, tags |-> entry.tags]

\* A stored string that is no JSON at all (the value of the lastUid marker)
rawString(text) == [json |-> "raw", text |-> text]

\* The empty string, which `if (stored)` takes for no string at all
emptyString == [json |-> "empty"]

\* The text of a JSON value without timestamp and ttl (null when isNull,
\* otherwise a number, a string, a boolean, [] or {})
nonEntry(isNull) == [json |-> IF isNull THEN "null" ELSE "scalar"]

\* The text of an object with data, timestamp and ttl but without tags
untagged(data, timestamp, ttl) ==
    [json |-> "untagged", data |-> data, timestamp |-> timestamp, ttl |-> ttl]

\* `if (stored)`: localStorage.getItem returned a non-empty string
truthy(stored) == stored.json # "empty"

\* Whether JSON.parse accepts the stored string
parses(stored) == stored.json \in {"object", "untagged", "null", "scalar"}

\* Whether isValid evaluates on the parsed value without throwing and with
\* numbers for timestamp and ttl: null.timestamp throws a TypeError, an
\* undefined timestamp makes the age NaN and the comparison false
hasAge(stored) == stored.json \in {"object", "untagged"}

\* JSON.parse of a stored string that holds an object
parse(stored) ==
    IF stored.json = "untagged"
    THEN [data |-> stored.data, timestamp |-> stored.timestamp, ttl |-> stored.ttl]
    ELSE [data |-> stored.data, timestamp |-> stored.timestamp,
          ttl |-> stored.ttl, tags |-> stored.tags]

----------------------------------------------------------------------------
(* CacheService.  A cache state c is the record of the object's fields and *)
(* of localStorage; every method is an operator from the state before to   *)
(* the state after (and the value returned).                               *)

\* CacheService.isValid
isValid(entry, t) == t - entry.timestamp < entry.ttl

\* CacheService.isStale: age > ttl * 0.8
isStale(entry, t) == (t - entry.timestamp) * 10 > entry.ttl * 8

\* A faulty evictOldest that deletes the key inserted last
evictNewest(m) == IF Len(m) > 0 THEN SubSeq(m, 1, Len(m) - 1) ELSE m

\* CacheService.evictOldest: delete the first key of the Map
evictOldest(m) == IF Len(m) > 0 THEN Tail(m) ELSE m

\* A faulty count of a read served from the persistent tier
storageHitOnly ==
    [memoryHits |-> 0, memoryMisses |-> 0, storageHits |-> 1, storageMisses |-> 0]

\* What get adds to the counters of stats when the persistent tier serves it
storageHit ==
    [memoryHits |-> 0, memoryMisses |-> 1, storageHits |-> 1, storageMisses |-> 0]

\* What get adds to the counters of stats when the memory tier serves it
memoryHit ==
    [memoryHits |-> 1, memoryMisses |-> 0, storageHits |-> 0, storageMisses |-> 0]

\* What get adds to the counters of stats when no tier serves it
totalMiss ==
    [memoryHits |-> 0, memoryMisses |-> 1, storageHits |-> 0, storageMisses |-> 1]

\* CacheService.get: [c |-> state after, ret |-> data or Null,
\*                    counted |-> what the call adds to the hit and miss counters]
get(c, key, t) ==
    LET hasMem == MapHas(c.memoryCache, key)
        sk == getStorageKey(key)
    IN  IF hasMem /\ isValid(MapGet(c.memoryCache, key), t)
        THEN [c |-> c, ret |-> MapGet(c.memoryCache, key).data, counted |-> memoryHit]
        ELSE LET m1 == IF hasMem THEN MapDelete(c.memoryCache, key)
                       ELSE c.memoryCache
             IN  IF hasItem(c.localStorage, sk) /\ truthy(c.localStorage[sk])
                 THEN IF /\ parses(c.localStorage[sk])
                         /\ hasAge(c.localStorage[sk])
                         /\ isValid(parse(c.localStorage[sk]), t)
                      THEN [c |-> [c EXCEPT !.memoryCache =
                                       MapSet(m1, key, parse(c.localStorage[sk]))],
                            ret |-> parse(c.localStorage[sk]).data,
                            counted |-> storageHit]
                      ELSE [c |-> [c EXCEPT !.memoryCache = m1,
                                            !.localStorage = removeItem(@, sk)],
                            ret |-> Null, counted |-> totalMiss]
                 ELSE [c |-> [c EXCEPT !.memoryCache = m1], ret |-> Null,
                       counted |-> totalMiss]

\* A faulty set that persists the entry with the ttl of the memory copy
setUnstretched(c, key, data, options, t, throws) ==
    LET entry == [data |-> data, timestamp |-> t, ttl |-> options.ttl,
                  tags |-> options.tags]
        m1 == IF options.useMemory
              THEN MapSet(IF Len(c.memoryCache) >= MAX_MEMORY_ENTRIES
                          THEN evictOldest(c.memoryCache)
                          ELSE c.memoryCache, key, entry)
              ELSE c.memoryCache
        s1 == IF options.useMemory
              THEN [c.stats EXCEPT !.totalEntries = Len(m1)]
              ELSE c.stats
        l1 == IF options.useStorage /\ ~throws
              THEN setItem(c.localStorage, getStorageKey(key), stringify(entry))
              ELSE c.localStorage
    IN  [c EXCEPT !.memoryCache = m1, !.stats = s1, !.localStorage = l1]

\* A faulty set that gives up as a whole when the persistent write throws
setAllOrNothing(c, key, data, options, t, throws) ==
    IF options.useStorage /\ throws THEN c
    ELSE LET entry == [data |-> data, timestamp |-> t, ttl |-> options.ttl,
                       tags |-> options.tags]
             m1 == IF options.useMemory
                   THEN MapSet(IF Len(c.memoryCache) >= MAX_MEMORY_ENTRIES
                               THEN evictOldest(c.memoryCache)
                               ELSE c.memoryCache, key, entry)
                   ELSE c.memoryCache
             s1 == IF options.useMemory
                   THEN [c.stats EXCEPT !.totalEntries = Len(m1)]
                   ELSE c.stats
             storageEntry == [entry EXCEPT !.ttl = options.ttl * STORAGE_TTL_MULTIPLIER]
             l1 == IF options.useStorage
                   THEN setItem(c.localStorage, getStorageKey(key), stringify(storageEntry))
                   ELSE c.localStorage
         IN  [c EXCEPT !.memoryCache = m1, !.stats = s1, !.localStorage = l1]

\* CacheService.set; `throws` says whether localStorage.setItem throws
set(c, key, data, options, t, throws) ==
    LET entry == [data |-> data, timestamp |-> t, ttl |-> options.ttl,
                  tags |-> options.tags]
        m1 == IF options.useMemory
              THEN MapSet(IF Len(c.memoryCache) >= MAX_MEMORY_ENTRIES
                          THEN evictOldest(c.memoryCache)
                          ELSE c.memoryCache, key, entry)
              ELSE c.memoryCache
        s1 == IF options.useMemory
              THEN [c.stats EXCEPT !.totalEntries = Len(m1)]
              ELSE c.stats
        storageEntry == [entry EXCEPT !.ttl = options.ttl * STORAGE_TTL_MULTIPLIER]
        l1 == IF options.useStorage /\ ~throws
              THEN setItem(c.localStorage, getStorageKey(key), stringify(storageEntry))
              ELSE c.localStorage
    IN  [c EXCEPT !.memoryCache = m1, !.stats = s1, !.localStorage = l1]

\* The storage keys the scans of invalidate / invalidateByUser collect
storageKeysWith(ls, text) ==
    {sk \in DOMAIN ls : startsWith(sk, CACHE_PREFIX \o <<":">>) /\ includes(sk, text)}

\* localStorage without the keys of a set
removeItems(ls, sks) == [x \in (DOMAIN ls) \ sks |-> ls[x]]

\* CacheService.invalidate
invalidate(c, keyOrTag) ==
    IF MapHas(c.memoryCache, keyOrTag)
    THEN [c EXCEPT !.memoryCache = MapDelete(@, keyOrTag),
                   !.localStorage = removeItem(@, getStorageKey(keyOrTag))]
    ELSE LET keysToRemove ==
                 {k \in MapKeys(c.memoryCache) :
                     \/ arrayIncludes(MapGet(c.memoryCache, k).tags, keyOrTag)
                     \/ startsWith(k, keyOrTag)}
             l1 == removeItems(c.localStorage, {getStorageKey(k) : k \in keysToRemove})
         IN  [c EXCEPT !.memoryCache = SelectSeq(@, LAMBDA x : x.key \notin keysToRemove),
                       !.localStorage = removeItems(l1, storageKeysWith(l1, keyOrTag))]

\* A faulty invalidateByUser that purges the memory tier only
invalidateByUserMemoryOnly(c, uid) ==
    LET m1 == SelectSeq(c.memoryCache, LAMBDA x : ~includes(x.key, uid))
    IN  [c EXCEPT !.memoryCache = m1,
                  !.stats = [@ EXCEPT !.totalEntries = Len(m1)]]

\* CacheService.invalidateByUser
invalidateByUser(c, uid) ==
    LET m1 == SelectSeq(c.memoryCache, LAMBDA x : ~includes(x.key, uid))
    IN  [c EXCEPT !.memoryCache = m1,
                  !.localStorage = removeItems(@, storageKeysWith(@, uid)),
                  !.stats = [@ EXCEPT !.totalEntries = Len(m1)]]

\* A faulty clearAll that empties the whole localStorage
clearAllOrigin(c) ==
    [c EXCEPT !.memoryCache = <<>>,
              !.pendingFetches = [k \in {} |-> 0],
              !.localStorage = [k \in {} |-> Null],
              !.stats = [@ EXCEPT !.totalEntries = 0]]

\* CacheService.clearAll
clearAll(c) ==
    [c EXCEPT !.memoryCache = <<>>,
              !.pendingFetches = [k \in {} |-> 0],
              !.localStorage = removeItems(@, storageKeysWith(@, <<>>)),
              !.stats = [@ EXCEPT !.totalEntries = 0]]

\* A faulty cleanup that keeps an entry whose age equals its ttl
cleanupKeepsBoundary(c, t) ==
    LET m1 == SelectSeq(c.memoryCache,
                        LAMBDA x : t - x.entry.timestamp <= x.entry.ttl)
    IN  [c EXCEPT !.memoryCache = m1,
                  !.stats = IF Len(m1) < Len(c.memoryCache)
                            THEN [@ EXCEPT !.totalEntries = Len(m1)] ELSE @]

\* CacheService.cleanup, the sweep the constructor schedules every minute
cleanup(c, t) ==
    LET m1 == SelectSeq(c.memoryCache, LAMBDA x : isValid(x.entry, t))
    IN  [c EXCEPT !.memoryCache = m1,
                  !.stats = IF Len(m1) < Len(c.memoryCache)
                            THEN [@ EXCEPT !.totalEntries = Len(m1)] ELSE @]

----------------------------------------------------------------------------
(* Promises.  A fetcher invocation that has not settled is a record        *)
(* [id, key, options, background, callers, caught]: background says that   *)
(* backgroundRefresh started it, callers counts the getOrFetch calls that  *)
(* were handed this promise, caught those of them made by prefetch.        *)

\* At most this many fetcher invocations are outstanding at once
MaxInflight == 2

\* At most this many getOrFetch calls wait on one promise
MaxCallers == 2

\* Promises are told apart by their key and a number that is free for the key
FreshId(ps, key) ==
    CHOOSE i \in 1..(Cardinality(ps) + 1) :
        /\ \A p \in ps : p.key = key => p.id # i
        /\ \A j \in 1..(i - 1) : \E p \in ps : p.key = key /\ p.id = j

\* Map.prototype.delete on pendingFetches
pendingDelete(pf, key) == [k \in (DOMAIN pf) \ {key} |-> pf[k]]

\* Map.prototype.set on pendingFetches
pendingSet(pf, key, id) ==
    [k \in (DOMAIN pf) \cup {key} |-> IF k = key THEN id ELSE pf[k]]

\* CacheService.backgroundRefresh: the fetcher is invoked, nothing is recorded
backgroundRefresh(ps, key, options) ==
    ps \cup {[id |-> FreshId(ps, key), key |-> key, options |-> options,
              background |-> TRUE, callers |-> 0, caught |-> 0]}

\* A faulty getOrFetch that does not look into pendingFetches
getOrFetchNoPending(c, ps, key, options, t) ==
    LET r == get(c, key, t)
    IN  IF r.ret # Null
        THEN [c |-> r.c, promises |-> ps, ret |-> r.ret, promise |-> 0, started |-> {}]
        ELSE [c |-> [r.c EXCEPT !.pendingFetches = pendingSet(@, key, FreshId(ps, key))],
              promises |-> ps \cup
                  {[id |-> FreshId(ps, key), key |-> key,
                    options |-> [options EXCEPT !.staleWhileRevalidate = FALSE],
                    background |-> FALSE, callers |-> 1, caught |-> 0]},
              ret |-> Null, promise |-> FreshId(ps, key), started |-> {FreshId(ps, key)}]

\* CacheService.getOrFetch up to its return:
\* [c, promises, ret (the value on a hit), promise (the id returned, or 0),
\*  started (the ids of the fetcher invocations this call made)]
getOrFetch(c, ps, key, options, t) ==
    IF key \in DOMAIN c.pendingFetches
    THEN [c |-> c,
          promises |-> {IF p.key = key /\ p.id = c.pendingFetches[key]
                        THEN [p EXCEPT !.callers = @ + 1] ELSE p : p \in ps},
          ret |-> Null, promise |-> c.pendingFetches[key], started |-> {}]
    ELSE LET r == get(c, key, t)
         IN  IF r.ret # Null
             THEN IF /\ MapHas(r.c.memoryCache, key)
                     /\ options.staleWhileRevalidate
                     /\ isStale(MapGet(r.c.memoryCache, key), t)
                  THEN [c |-> r.c, promises |-> backgroundRefresh(ps, key, options),
                        ret |-> r.ret, promise |-> 0, started |-> {FreshId(ps, key)}]
                  ELSE [c |-> r.c, promises |-> ps, ret |-> r.ret, promise |-> 0,
                        started |-> {}]
             ELSE [c |-> [r.c EXCEPT !.pendingFetches = pendingSet(@, key, FreshId(ps, key))],
                   promises |-> ps \cup
                       {[id |-> FreshId(ps, key), key |-> key,
                         options |-> [options EXCEPT !.staleWhileRevalidate = FALSE],
                         background |-> FALSE, callers |-> 1, caught |-> 0]},
                   ret |-> Null, promise |-> FreshId(ps, key), started |-> {FreshId(ps, key)}]

\* The .then callback of the fetcher's promise (getOrFetch or backgroundRefresh)
resolved(c, p, data, t, throws) ==
    IF p.background
    THEN set(c, p.key, data, p.options, t, throws)
    ELSE [set(c, p.key, data, p.options, t, throws)
             EXCEPT !.pendingFetches = pendingDelete(@, p.key)]

\* A faulty .catch callback that leaves the marker in pendingFetches
rejectedKeepsPending(c, p) == c

\* The .catch callback of the fetcher's promise
rejected(c, p) ==
    IF p.background THEN c
    ELSE [c EXCEPT !.pendingFetches = pendingDelete(@, p.key)]

\* A faulty prefetch that awaits getOrFetch outside a try block
prefetchRethrows(c, ps, key, options, t) ==
    LET r == get(c, key, t)
    IN  IF r.ret = Null
        THEN getOrFetch(r.c, ps, key, options, t)
        ELSE [c |-> r.c, promises |-> ps, ret |-> r.ret, promise |-> 0,
              started |-> {}]

\* CacheService.prefetch up to its await: the call awaits getOrFetch inside
\* try / catch, so it is a caller that catches what the promise rejects with
prefetch(c, ps, key, options, t) ==
    LET r == get(c, key, t)
        g == getOrFetch(r.c, ps, key, options, t)
    IN  IF r.ret = Null
        THEN [g EXCEPT !.promises =
                 {IF p.key = key /\ p.id = g.promise
                  THEN [p EXCEPT !.caught = @ + 1] ELSE p : p \in g.promises}]
        ELSE [c |-> r.c, promises |-> ps, ret |-> r.ret, promise |-> 0,
              started |-> {}]

----------------------------------------------------------------------------
(* The data-access wrappers (lib/todo, lib/journal) and warmCache: the     *)
(* keys, options and tags with which the application calls the cache.      *)

daily == <<"d", "a", "i", "l", "y">>

\* getDailyId / formatDate: `${y}-${m}-${d}` with month and day padded
getDailyId(date) ==
    NumStr(date.year) \o <<"-">> \o Pad2(date.month) \o <<"-">> \o Pad2(date.day)

\* getPeriodTTL
getPeriodTTL(period) ==
    IF period = daily THEN CacheTTL.TODOS_DAILY
    ELSE IF period = <<"w", "e", "e", "k", "l", "y">> THEN CacheTTL.TODOS_WEEKLY
    ELSE IF period = <<"m", "o", "n", "t", "h", "l", "y">> THEN CacheTTL.TODOS_MONTHLY
    ELSE CacheTTL.TODOS_DAILY

\* tags: [`todo:${userId}`, `period:${period}`]
todoTags(userId, period) ==
    << <<"t", "o", "d", "o", ":">> \o userId,
       <<"p", "e", "r", "i", "o", "d", ":">> \o period >>

\* The options getTodoList passes to getOrFetch
getTodoListOptions(userId, period) ==
    CacheOptions(getPeriodTTL(period), TRUE, TRUE, todoTags(userId, period), TRUE)

\* The options saveTodoList and subscribeTodoList pass to set
saveTodoListOptions(userId, period) ==
    CacheOptions(getPeriodTTL(period), TRUE, TRUE, todoTags(userId, period), FALSE)

\* saveTodoList after its remote write: set, then for a daily list the
\* invalidation of the month's entry-dates key
saveTodoList(c, userId, period, periodId, items, t, throws) ==
    LET c1 == set(c, buildTodoCacheKey(userId, period, periodId), items,
                  saveTodoListOptions(userId, period), t, throws)
        ym == splitDash(periodId)
    IN  IF period = daily
        THEN invalidate(c1, buildEntryDatesCacheKey(userId, Number(ym[1]), Number(ym[2])))
        ELSE c1

\* The options getTodoDatesForMonth passes to getOrFetch
getTodoDatesOptions(userId) ==
    CacheOptions(CacheTTL.ENTRY_DATES, TRUE, TRUE,
                 << <<"e", "n", "t", "r", "y", "D", "a", "t", "e", "s", ":">> \o userId >>,
                 TRUE)

\* tags: [`user:${uid}`]
userTags(uid) == << <<"u", "s", "e", "r", ":">> \o uid >>

\* warmCache: two prefetches, goals then the current month's habits
warmCache(c, ps, uid, today, t) ==
    LET g == prefetch(c, ps, buildGoalsCacheKey(uid),
                      CacheOptions(CacheTTL.GOALS, TRUE, TRUE, userTags(uid), FALSE), t)
        h == prefetch(g.c, g.promises, buildHabitsCacheKey(uid, today.year, today.month),
                      CacheOptions(CacheTTL.HABITS, TRUE, TRUE, userTags(uid), FALSE), t)
    IN  [c |-> h.c, promises |-> h.promises, ret |-> Null, promise |-> 0,
         started |-> g.started \cup h.started]

----------------------------------------------------------------------------
(* cacheManager.ts: the keys it keeps in localStorage beside the cache's,  *)
(* the purges and the corruption check.                                    *)

\* cacheManager.ts: const CACHE_PREFIX = 'habit-tracker'
MANAGER_PREFIX == <<"h", "a", "b", "i", "t", "-", "t", "r", "a", "c", "k", "e", "r">>

\* LAST_UID_KEY = `${CACHE_PREFIX}:lastUid`
LAST_UID_KEY == MANAGER_PREFIX \o <<":", "l", "a", "s", "t", "U", "i", "d">>

\* getCacheKey(uid, dataType, subKey)
getCacheKey(uid, dataType, subKey) ==
    MANAGER_PREFIX \o <<":">> \o uid \o <<":">> \o dataType \o <<":">> \o subKey

\* getLastKnownUid
getLastKnownUid(ls) ==
    IF hasItem(ls, LAST_UID_KEY) THEN ls[LAST_UID_KEY].text ELSE NoUid

\* setLastKnownUid
setLastKnownUid(ls, uid) ==
    IF uid # NoUid THEN setItem(ls, LAST_UID_KEY, rawString(uid))
    ELSE removeItem(ls, LAST_UID_KEY)

\* clearUserLocalStorage(uid)
clearUserLocalStorage(c, uid) ==
    LET c1 == IF uid # NoUid THEN invalidateByUser(c, uid) ELSE clearAll(c)
        keysToRemove ==
            {k \in DOMAIN c1.localStorage :
                /\ startsWith(k, MANAGER_PREFIX)
                /\ (uid # NoUid => includes(k, uid))}
    IN  [c1 EXCEPT !.localStorage = removeItems(@, keysToRemove)]

\* clearAllCache up to its first await: localStorage.clear()
clearAllCache(c) == [c EXCEPT !.localStorage = [k \in {} |-> Null]]

\* The characters [a-zA-Z0-9]
Alnum ==
    {"a", "b", "c", "d", "e", "f", "g", "h", "i", "j", "k", "l", "m", "n", "o", "p",
     "q", "r", "s", "t", "u", "v", "w", "x", "y", "z",
     "A", "B", "C", "D", "E", "F", "G", "H", "I", "J", "K", "L", "M", "N", "O", "P",
     "Q", "R", "S", "T", "U", "V", "W", "X", "Y", "Z",
     "0", "1", "2", "3", "4", "5", "6", "7", "8", "9"}

\* /habit-tracker:[a-zA-Z0-9]+:/.test(key)
uidPattern(key) ==
    \E i \in 1..Len(key) : \E j \in (i + 1)..Len(key) :
        /\ i > Len(MANAGER_PREFIX) + 1
        /\ SubSeq(key, i - Len(MANAGER_PREFIX) - 1, i - 1) = MANAGER_PREFIX \o <<":">>
        /\ \A l \in i..(j - 1) : key[l] \in Alnum
        /\ key[j] = ":"

\* detectCacheCorruption(currentUid)
detectCacheCorruption(ls, currentUid) ==
    \E key \in DOMAIN ls :
        /\ startsWith(key, MANAGER_PREFIX)
        /\ \/ currentUid = NoUid /\ includes(key, <<":">>)
           \/ currentUid # NoUid /\ ~includes(key, currentUid) /\ uidPattern(key)

\* saveGoalsToLocal(uid, goals)
saveGoalsToLocal(ls, uid) ==
    setItem(ls, getCacheKey(uid, <<"g", "o", "a", "l", "s">>,
                            <<"c", "u", "r", "r", "e", "n", "t">>),
            [json |-> "value"])

----------------------------------------------------------------------------
(* State *)

\* The provider has delivered nothing to the listener yet
Unknown == <<"?">>

EmptyStorage == [k \in {} |-> Null]

NoPending == [k \in {} |-> 0]

NoOp == [op |-> "none", arg |-> <<>>, count |-> 0]

\* The record of a call: the method and its first argument
Op(name, arg) == [op |-> name, arg |-> arg, count |-> 0]

\* No logout has been called
NoLogout == [pc |-> "idle", at |-> 1, uid |-> NoUid, steps |-> <<>>, threw |-> FALSE]

\* No cache.set call is being followed
NoSet ==
    [key |-> <<>>, data |-> Null, timestamp |-> 0, ttl |-> 0, useMemory |-> FALSE,
     useStorage |-> FALSE, throws |-> FALSE, otherTierEmpty |-> FALSE]

\* The cache's fields and localStorage as one record
Cache ==
    [memoryCache |-> memoryCache, localStorage |-> localStorage,
     pendingFetches |-> pendingFetches, stats |-> stats]

Apply(c) ==
    /\ memoryCache' = c.memoryCache
    /\ localStorage' = c.localStorage
    /\ pendingFetches' = c.pendingFetches
    /\ stats' = c.stats

\* The state after the page is loaded
Init ==
    /\ memoryCache = <<>>
    /\ localStorage = EmptyStorage
    /\ pendingFetches = NoPending
    /\ stats = [totalEntries |-> 0]
    /\ promises = {}
    /\ now = 0
    /\ previousUidRef = NoUid
    /\ user = NoUid
    /\ authState = Unknown
    /\ suspended = <<>>
    /\ lastOp = NoOp
    /\ lastSet = NoSet
    /\ logoutRun = NoLogout

session == <<previousUidRef, user, authState, suspended, logoutRun>>

----------------------------------------------------------------------------
(* Inputs *)

\* User identifiers; the first is a prefix of the second
Uids == {<<"u", "1">>, <<"u", "1", "2">>}

\* The dates the pages ask for
Dates == {[year |-> 2024, month |-> 1, day |-> 5]}

\* What a fetcher resolves to and what a save writes
Data == {"d1", "d2"}

\* The clock advances in steps of 4.5 minutes, at most MaxTicks times
Ticks == {270000}
MaxTicks == 1

\* The keys the key builders make for a user
UserKeys(uid) ==
    {buildTodoCacheKey(uid, daily, getDailyId(d)) : d \in Dates}
    \cup {buildEntryDatesCacheKey(uid, d.year, d.month) : d \in Dates}
    \cup {buildHabitsCacheKey(uid, d.year, d.month) : d \in Dates}
    \cup {buildGoalsCacheKey(uid)}

\* The tags the wrappers attach for a user
UserTags(uid) ==
    {todoTags(uid, daily)[1], todoTags(uid, daily)[2],
     getTodoDatesOptions(uid).tags[1], userTags(uid)[1]}

\* A getOrFetch call stays within the bounds on promises and callers
WithinBounds(r) ==
    /\ Cardinality(r.promises) <= MaxInflight
    /\ \A p \in r.promises : p.callers <= MaxCallers

----------------------------------------------------------------------------
(* Actions on the cache *)

\* getTodoList(userId, 'daily', getDailyId(date))
GetTodoList(userId, date) ==
    LET key == buildTodoCacheKey(userId, daily, getDailyId(date))
        r == getOrFetch(Cache, promises, key, getTodoListOptions(userId, daily), now)
    IN  /\ WithinBounds(r)
        /\ Apply(r.c)
        /\ promises' = r.promises
        /\ lastOp' = Op("getOrFetch", key)
        /\ lastSet' = NoSet
        /\ UNCHANGED <<now, session>>

\* getTodoDatesForMonth(userId, date)
GetTodoDatesForMonth(userId, date) ==
    LET key == buildEntryDatesCacheKey(userId, date.year, date.month)
        r == getOrFetch(Cache, promises, key, getTodoDatesOptions(userId), now)
    IN  /\ WithinBounds(r)
        /\ Apply(r.c)
        /\ promises' = r.promises
        /\ lastOp' = Op("getOrFetch", key)
        /\ lastSet' = NoSet
        /\ UNCHANGED <<now, session>>

\* saveTodoList(userId, 'daily', getDailyId(date), items), after its remote write
SaveTodoList(userId, date, items) ==
    /\ Apply(saveTodoList(Cache, userId, daily, getDailyId(date), items, now, FALSE))
    /\ lastOp' = Op("saveTodoList", buildTodoCacheKey(userId, daily, getDailyId(date)))
    /\ lastSet' = NoSet
    /\ UNCHANGED <<promises, now, session>>

\* A fetcher's promise resolves with data
Resolve(p, data) ==
    /\ p \in promises
    /\ Apply(resolved(Cache, p, data, now, FALSE))
    /\ promises' = promises \ {p}
    /\ lastOp' = Op("resolved", p.key)
    /\ lastSet' = NoSet
    /\ UNCHANGED <<now, session>>

\* A fetcher's promise rejects; the count is the number of getOrFetch callers
\* the error is thrown on to and that do not catch it (a background refresh
\* only logs it, prefetch catches it)
Reject(p) ==
    /\ p \in promises
    /\ Apply(rejected(Cache, p))
    /\ promises' = promises \ {p}
    /\ lastOp' = [Op("rejected", p.key) EXCEPT
                      !.count = IF p.background THEN 0 ELSE p.callers - p.caught]
    /\ lastSet' = NoSet
    /\ UNCHANGED <<now, session>>

\* cache.get(key)
Get(key) ==
    LET r == get(Cache, key, now)
    IN  /\ Apply(r.c)
        /\ lastOp' = Op("get", key)
        /\ UNCHANGED lastSet
        /\ UNCHANGED <<promises, now, session>>

\* cache.invalidate(keyOrTag)
Invalidate(keyOrTag) ==
    /\ Apply(invalidate(Cache, keyOrTag))
    /\ lastOp' = [Op("invalidate", keyOrTag) EXCEPT
                      !.count = Len(memoryCache) - Len(invalidate(Cache, keyOrTag).memoryCache)]
    /\ lastSet' = NoSet
    /\ UNCHANGED <<promises, now, session>>

\* cache.invalidateByUser(uid)
InvalidateByUser(uid) ==
    /\ Apply(invalidateByUser(Cache, uid))
    /\ lastOp' = [Op("invalidateByUser", uid) EXCEPT
                      !.count = Len(memoryCache) - Len(invalidateByUser(Cache, uid).memoryCache)]
    /\ lastSet' = NoSet
    /\ UNCHANGED <<promises, now, session>>

\* cache.clearAll()
ClearAll ==
    /\ Apply(clearAll(Cache))
    /\ lastOp' = [Op("clearAll", <<>>) EXCEPT
                     !.count = Cardinality(storageKeysWith(localStorage, <<>>))]
    /\ lastSet' = NoSet
    /\ UNCHANGED <<promises, now, session>>

\* The sweep of the constructor's setInterval
Cleanup ==
    /\ Apply(cleanup(Cache, now))
    /\ lastOp' = [Op("cleanup", <<>>) EXCEPT
                     !.count = Len(memoryCache) - Len(cleanup(Cache, now).memoryCache)]
    /\ UNCHANGED lastSet
    /\ UNCHANGED <<promises, now, session>>

\* The page is reloaded: the script's objects are gone, localStorage stays
Reload ==
    /\ memoryCache' = <<>>
    /\ pendingFetches' = NoPending
    /\ stats' = [totalEntries |-> 0]
    /\ promises' = {}
    /\ previousUidRef' = NoUid
    /\ user' = NoUid
    /\ authState' = Unknown
    /\ suspended' = <<>>
    /\ logoutRun' = NoLogout
    /\ lastOp' = NoOp
    /\ lastSet' = NoSet
    /\ UNCHANGED <<localStorage, now>>

\* Time passes, up to a number of steps of the clock
Elapse(steps) ==
    \E d \in Ticks :
        /\ now + d <= steps * d
        /\ now' = now + d
        /\ UNCHANGED <<memoryCache, localStorage, pendingFetches, stats, promises,
                       session, lastOp, lastSet>>

\* Time passes while the engine is used
Tick == Elapse(MaxTicks)

\* cache.set(key, data, {ttl, useMemory, useStorage}) called directly
SetEntry(key, data, ttl, useMemory, useStorage) ==
    /\ Apply(set(Cache, key, data, CacheOptions(ttl, useMemory, useStorage, <<>>, FALSE),
                 now, FALSE))
    /\ lastOp' = Op("set", key)
    /\ lastSet' = [key |-> key, data |-> data, timestamp |-> now, ttl |-> ttl,
                   useMemory |-> useMemory, useStorage |-> useStorage,
                   throws |-> FALSE,
                   otherTierEmpty |->
                       /\ useMemory \/ ~MapHas(memoryCache, key)
                       /\ useStorage \/ ~hasItem(localStorage, getStorageKey(key))]
    /\ UNCHANGED <<promises, now, session>>

\* cache.set(key, data, {ttl, useMemory, useStorage: true}) called directly
\* while JSON.stringify or localStorage.setItem throws
SetEntryFails(key, data, ttl, useMemory) ==
    /\ Apply(set(Cache, key, data, CacheOptions(ttl, useMemory, TRUE, <<>>, FALSE),
                 now, TRUE))
    /\ lastOp' = Op("set", key)
    /\ lastSet' = [key |-> key, data |-> data, timestamp |-> now, ttl |-> ttl,
                   useMemory |-> useMemory, useStorage |-> TRUE,
                   throws |-> TRUE,
                   otherTierEmpty |->
                       /\ useMemory \/ ~MapHas(memoryCache, key)
                       /\ ~hasItem(localStorage, getStorageKey(key))]
    /\ UNCHANGED <<promises, now, session>>

\* Something other than the engine (an older build, another script of the
\* origin, the user in the developer tools) stores a string under the storage
\* key of a cache key; cache.get reads whatever localStorage.getItem returns
StoreString(key, stored) ==
    /\ localStorage' = setItem(localStorage, getStorageKey(key), stored)
    /\ lastOp' = Op("setItem", key)
    /\ lastSet' = NoSet
    /\ UNCHANGED <<memoryCache, pendingFetches, stats, promises, now, session>>

----------------------------------------------------------------------------
(* The AuthProvider: the onAuthStateChanged listener *)

\* At most this many listener invocations wait in clearAllCache at once
MaxSuspended == 1

\* The listener from `previousUidRef.current = currentUid` to its end
SignInTail(c, currentUid, today) ==
    LET c1 == [c EXCEPT !.localStorage = setLastKnownUid(@, currentUid)]
        w == warmCache(c1, promises, currentUid, today, now)
    IN  /\ WithinBounds(w)
        /\ previousUidRef' = currentUid
        /\ user' = currentUid
        /\ Apply(w.c)
        /\ promises' = w.promises

\* A faulty listener that records the user and warms the cache before it
\* purges the previous user
SignedInWarmFirst(currentUid) ==
    \E today \in Dates :
        LET c1 == [Cache EXCEPT !.localStorage = setLastKnownUid(@, currentUid)]
            w == warmCache(c1, promises, currentUid, today, now)
            c2 == IF previousUidRef # NoUid /\ previousUidRef # currentUid
                  THEN clearUserLocalStorage(w.c, previousUidRef)
                  ELSE w.c
        IN  /\ WithinBounds(w)
            /\ previousUidRef' = currentUid
            /\ user' = currentUid
            /\ Apply(c2)
            /\ promises' = w.promises
            /\ UNCHANGED suspended

\* The listener is called with a signed-in user
SignedIn(currentUid) ==
    LET c1 == IF previousUidRef # NoUid /\ previousUidRef # currentUid
              THEN clearUserLocalStorage(Cache, previousUidRef)
              ELSE Cache
    IN  IF detectCacheCorruption(c1.localStorage, currentUid)
        THEN /\ Len(suspended) < MaxSuspended
             /\ Apply(clearAllCache(c1))
             /\ suspended' = Append(suspended, currentUid)
             /\ UNCHANGED <<promises, previousUidRef, user>>
        ELSE /\ \E today \in Dates : SignInTail(c1, currentUid, today)
             /\ UNCHANGED suspended

\* The listener is called with null
SignedOut ==
    LET lastUid == getLastKnownUid(localStorage)
        c1 == IF lastUid # NoUid
              THEN [clearUserLocalStorage(Cache, lastUid)
                       EXCEPT !.localStorage = setLastKnownUid(@, NoUid)]
              ELSE Cache
    IN  /\ Apply(c1)
        /\ previousUidRef' = NoUid
        /\ user' = NoUid
        /\ UNCHANGED <<promises, suspended>>

\* The auth provider reports a change of its state to the listener
AuthStateChanged(firebaseUser) ==
    /\ firebaseUser # authState
    /\ authState' = firebaseUser
    /\ IF firebaseUser # NoUid THEN SignedIn(firebaseUser) ELSE SignedOut
    /\ lastOp' = [Op("onAuthStateChanged", firebaseUser) EXCEPT
                     !.count = IF /\ firebaseUser # NoUid
                                  /\ previousUidRef # NoUid
                                  /\ previousUidRef # firebaseUser
                               THEN Len(memoryCache)
                                    - Len(invalidateByUser(Cache, previousUidRef).memoryCache)
                               ELSE 0]
    /\ lastSet' = NoSet
    /\ UNCHANGED <<now, logoutRun>>

\* clearAllCache is done and a suspended listener invocation goes on
ResumeSignIn(i) ==
    /\ i \in 1..Len(suspended)
    /\ \E today \in Dates : SignInTail(Cache, suspended[i], today)
    /\ suspended' = [j \in 1..(Len(suspended) - 1) |->
                        IF j < i THEN suspended[j] ELSE suspended[j + 1]]
    /\ lastOp' = Op("resumeSignIn", suspended[i])
    /\ lastSet' = NoSet
    /\ UNCHANGED <<now, authState, logoutRun>>

\* saveGoalsToLocal(uid, goals) for the signed-in user
SaveGoalsToLocal ==
    /\ user # NoUid
    /\ localStorage' = saveGoalsToLocal(localStorage, user)
    /\ lastOp' = Op("saveGoalsToLocal", user)
    /\ lastSet' = NoSet
    /\ UNCHANGED <<memoryCache, pendingFetches, stats, promises, now, session>>

----------------------------------------------------------------------------
(* The AuthProvider: logout *)

\* AUTH_CACHE_KEYS
AUTH_CACHE_KEYS ==
    {<<"f", "i", "r", "e", "b", "a", "s", "e", ":", "a", "u", "t", "h", "U", "s", "e", "r">>,
     <<"f", "i", "r", "e", "b", "a", "s", "e", ":", "h", "o", "s", "t">>}

\* What can fail in a step: nothing, an access to localStorage (the first one
\* of the step), sessionStorage.clear(), or the provider's signOut
Faults == {"none", "localStorage", "sessionStorage", "signOut"}

\* clearAllUserCache(uid): clearUserLocalStorage, then clearSessionStorage.
\* invalidateByUser has emptied the memory tier of the user's keys when it
\* first reads localStorage
clearAllUserCache(c, uid, fault) ==
    IF fault = "localStorage"
    THEN [c EXCEPT !.memoryCache =
                       SelectSeq(@, LAMBDA x : ~includes(x.key, uid))]
    ELSE clearUserLocalStorage(c, uid)

\* clearAuthCache: remove the localStorage keys of the provider, then
\* clearSessionStorage
clearAuthCache(c, fault) ==
    IF fault = "localStorage"
    THEN c
    ELSE [c EXCEPT !.localStorage =
                       removeItems(@, {k \in DOMAIN @ :
                                          \E pattern \in AUTH_CACHE_KEYS :
                                              includes(k, pattern)})]

\* A faulty logout that signs out at the provider before it purges
signOutFirst ==
    <<"signOut", "clearAllUserCache", "clearAuthCache", "setLastKnownUid">>

\* The steps of logout's try block, in the order of the code
logoutOrder ==
    <<"clearAllUserCache", "clearAuthCache", "signOut", "setLastKnownUid">>

\* The faults a step can meet
stepFaults(step, uid) ==
    CASE step = "clearAllUserCache" ->
            IF uid # NoUid THEN {"none", "localStorage", "sessionStorage"}
            ELSE {"none"}
      [] step = "clearAuthCache" -> {"none", "localStorage", "sessionStorage"}
      [] step = "signOut" -> {"none", "signOut"}
      [] step = "setLastKnownUid" -> {"none", "localStorage"}

\* One step of the try block: [c |-> state after, called |-> what it invoked]
logoutStep(c, step, uid, fault) ==
    CASE step = "clearAllUserCache" ->
            IF uid # NoUid
            THEN [c |-> clearAllUserCache(c, uid, fault),
                  called |-> <<"invalidateByUser">>]
            ELSE [c |-> c, called |-> <<>>]
      [] step = "clearAuthCache" ->
            [c |-> clearAuthCache(c, fault), called |-> <<"clearAuthCache">>]
      [] step = "signOut" ->
            [c |-> c, called |-> <<"signOut">>]
      [] step = "setLastKnownUid" ->
            [c |-> IF fault = "none"
                   THEN [c EXCEPT !.localStorage = setLastKnownUid(@, NoUid)]
                   ELSE c,
             called |-> <<"setLastKnownUid">>]

\* logout() is called, or the running call goes on after an await, and runs
\* the next step of its try block; when the step throws, the catch block
\* follows at once and runs clearAllCache up to its first await
LogoutStep(fault) ==
    /\ logoutRun.pc \in {"idle", "returned", "try"}
    /\ LET run == IF logoutRun.pc = "try" THEN logoutRun
                  ELSE [NoLogout EXCEPT !.uid = user]
           step == logoutOrder[run.at]
           r == logoutStep(Cache, step, run.uid, fault)
       IN  /\ fault \in stepFaults(step, run.uid)
           /\ Apply(IF fault # "none" THEN clearAllCache(r.c) ELSE r.c)
           /\ logoutRun' =
                  [pc |-> IF fault # "none" THEN "catch"
                          ELSE IF run.at = Len(logoutOrder) THEN "returned"
                          ELSE "try",
                   at |-> IF fault = "none" /\ run.at < Len(logoutOrder)
                          THEN run.at + 1 ELSE run.at,
                   uid |-> run.uid,
                   steps |-> run.steps \o r.called,
                   threw |-> fault # "none"]
           /\ lastOp' = Op(step, run.uid)
    /\ lastSet' = NoSet
    /\ UNCHANGED <<promises, now, previousUidRef, user, authState, suspended>>

\* The catch block of logout after the awaits of clearAllCache: the redirect
LogoutCatch ==
    /\ logoutRun.pc = "catch"
    /\ logoutRun' = [logoutRun EXCEPT !.pc = "returned"]
    /\ lastOp' = Op("clearAllCache", logoutRun.uid)
    /\ lastSet' = NoSet
    /\ UNCHANGED <<memoryCache, localStorage, pendingFetches, stats>>
    /\ UNCHANGED <<promises, now, previousUidRef, user, authState, suspended>>

----------------------------------------------------------------------------
(* Specifications *)

\* saveGoalsToLocal(uid, goals)
SaveGoalsFor(uid) ==
    /\ localStorage' = saveGoalsToLocal(localStorage, uid)
    /\ lastOp' = Op("saveGoalsToLocal", uid)
    /\ lastSet' = NoSet
    /\ UNCHANGED <<memoryCache, pendingFetches, stats, promises, now, session>>

\* The cache under the calls of the data-access wrappers of any user
Next ==
    \/ \E u \in Uids, d \in Dates : GetTodoList(u, d)
    \/ \E u \in Uids, d \in Dates, items \in Data : SaveTodoList(u, d, items)
    \/ \E p \in promises, data \in Data : Resolve(p, data)
    \/ \E p \in promises : Reject(p)
    \/ \E u \in Uids : \E tag \in UserTags(u) : Invalidate(tag)
    \/ \E u \in Uids : InvalidateByUser(u)
    \/ ClearAll
    \/ Cleanup
    \/ Reload
    \/ Tick

Spec == Init /\ [][Next]_vars

SessionData == {"d1"}

\* The session: the listener, and the pages calling for the signed-in user
SessionNext ==
    \/ \E u \in Uids \cup {NoUid} : AuthStateChanged(u)
    \/ \E i \in 1..Len(suspended) : ResumeSignIn(i)
    \/ Reload
    \/ \E p \in promises, data \in SessionData : Resolve(p, data)
    \/ \E p \in promises : Reject(p)
    \/ SaveGoalsToLocal

SessionSpec == Init /\ [][SessionNext]_vars

\* The engine under concurrent reads of the todo lists
FetchNext ==
    \/ \E u \in Uids, d \in Dates : GetTodoList(u, d)
    \/ \E p \in promises, data \in Data : Resolve(p, data)
    \/ \E p \in promises : Reject(p)
    \/ ClearAll
    \/ Tick

FetchSpec == Init /\ [][FetchNext]_vars

\* The engine while the users' entries are written, read and purged
PurgeNext ==
    \/ \E u \in Uids, d \in Dates, items \in Data : SaveTodoList(u, d, items)
    \/ \E u \in Uids : \E key \in UserKeys(u) : Get(key)
    \/ \E u \in Uids : InvalidateByUser(u)
    \/ Cleanup
    \/ Reload
    \/ Tick

PurgeSpec == Init /\ [][PurgeNext]_vars

\* The engine under direct set and get calls while time passes
TTLKeys == {buildGoalsCacheKey(u) : u \in {<<"u", "1">>}}

\* The ttl options of the set calls: the default and one step of the clock
TTLs == {DEFAULT_TTL} \cup Ticks

\* The clock is followed for this many steps
MaxWait == 3

\* Time passes while an entry ages
Wait == Elapse(MaxWait)

TTLNext ==
    \/ \E key \in TTLKeys, data \in Data, ttl \in TTLs,
          useMemory \in BOOLEAN, useStorage \in BOOLEAN :
            SetEntry(key, data, ttl, useMemory, useStorage)
    \/ \E key \in TTLKeys : Get(key)
    \/ Cleanup
    \/ Wait

TTLSpec == Init /\ [][TTLNext]_vars

\* The engine under direct set and get calls while the persistent tier may
\* reject a write
QuotaNext ==
    \/ \E key \in TTLKeys, data \in Data, ttl \in TTLs, useMemory \in BOOLEAN :
            SetEntry(key, data, ttl, useMemory, TRUE)
    \/ \E key \in TTLKeys, data \in Data, ttl \in TTLs, useMemory \in BOOLEAN :
            SetEntryFails(key, data, ttl, useMemory)
    \/ \E key \in TTLKeys : Get(key)
    \/ Cleanup
    \/ Wait

QuotaSpec == Init /\ [][QuotaNext]_vars

\* The engine beside the UID-scoped records cacheManager keeps in the same
\* localStorage
ClearNext ==
    \/ \E u \in Uids, d \in Dates : GetTodoList(u, d)
    \/ \E u \in Uids, d \in Dates, items \in SessionData : SaveTodoList(u, d, items)
    \/ \E p \in promises, data \in SessionData : Resolve(p, data)
    \/ \E u \in Uids : SaveGoalsFor(u)
    \/ ClearAll
    \/ Reload

ClearSpec == Init /\ [][ClearNext]_vars

\* The user of the session
LogoutUser == <<"u", "1">>

\* The session of one user who signs in and logs out while the fetches of
\* warmCache are under way
LogoutNext ==
    \/ \E u \in {LogoutUser, NoUid} : AuthStateChanged(u)
    \/ \E p \in promises, data \in SessionData : Resolve(p, data)
    \/ \E fault \in Faults : LogoutStep(fault)
    \/ LogoutCatch

LogoutSpec == Init /\ [][LogoutNext]_vars

\* The keys of the entries that age side by side
SweepKeys == {buildGoalsCacheKey(u) : u \in Uids}

\* The engine while entries of two keys are written at different times, age
\* and are swept
SweepNext ==
    \/ \E key \in SweepKeys, data \in SessionData, ttl \in TTLs,
          useStorage \in BOOLEAN :
            SetEntry(key, data, ttl, TRUE, useStorage)
    \/ \E key \in SweepKeys : Get(key)
    \/ Cleanup
    \/ Wait

SweepSpec == Init /\ [][SweepNext]_vars

\* The options warmCache passes with the goals fetcher
goalsOptions(uid) == CacheOptions(CacheTTL.GOALS, TRUE, TRUE, userTags(uid), FALSE)

\* What the goals fetcher resolves to: the document's data, or null when the
\* document does not exist
GoalsFetched == SessionData \cup {Null}

\* cache.prefetch(goalsKey, fetcher, options) as warmCache calls it
PrefetchGoals(uid) ==
    LET key == buildGoalsCacheKey(uid)
        r == prefetch(Cache, promises, key, goalsOptions(uid), now)
    IN  /\ WithinBounds(r)
        /\ Apply(r.c)
        /\ promises' = r.promises
        /\ lastOp' = [Op("prefetch", key) EXCEPT !.count = Cardinality(r.started)]
        /\ lastSet' = NoSet
        /\ UNCHANGED <<now, session>>

\* cache.getOrFetch(goalsKey, fetcher, options) with the same options
GetOrFetchGoals(uid) ==
    LET key == buildGoalsCacheKey(uid)
        r == getOrFetch(Cache, promises, key, goalsOptions(uid), now)
    IN  /\ WithinBounds(r)
        /\ Apply(r.c)
        /\ promises' = r.promises
        /\ lastOp' = [Op("getOrFetch", key) EXCEPT !.count = Cardinality(r.started)]
        /\ lastSet' = NoSet
        /\ UNCHANGED <<now, session>>

\* The engine while the goals are warmed and read and the fetcher may find
\* no document
GoalsNext ==
    \/ \E u \in Uids : PrefetchGoals(u)
    \/ \E u \in Uids : GetOrFetchGoals(u)
    \/ \E p \in promises, data \in GoalsFetched : Resolve(p, data)
    \/ \E p \in promises : Reject(p)
    \/ Tick

GoalsSpec == Init /\ [][GoalsNext]_vars

\* The strings that are not the JSON text of a cache entry
NonEntryStrings ==
    {rawString(<<"x">>), emptyString, nonEntry(TRUE), nonEntry(FALSE)}
    \cup {untagged(data, timestamp, ttl) :
             data \in Data, timestamp \in {0, now}, ttl \in TTLs}

\* The engine reading a persistent tier that also receives strings the engine
\* did not write
CorruptNext ==
    \/ \E key \in TTLKeys, stored \in NonEntryStrings : StoreString(key, stored)
    \/ \E key \in TTLKeys, data \in Data, ttl \in TTLs, useMemory \in BOOLEAN :
            SetEntry(key, data, ttl, useMemory, TRUE)
    \/ \E key \in TTLKeys : Get(key)
    \/ Reload
    \/ Wait

CorruptSpec == Init /\ [][CorruptNext]_vars

\* The engine while one user writes the todo list of one day after the other
\* and re-opens the first day
CapUser == <<"u", "1">>

\* The i-th day of the diary
Day(i) == [year |-> 2024, month |-> 1 + ((i - 1) \div 28), day |-> 1 + ((i - 1) % 28)]

\* The cache key of the todo list of the i-th day
DayKey(i) == buildTodoCacheKey(CapUser, daily, getDailyId(Day(i)))

\* The diary runs over this many days
MaxDays == 102

\* The days that are opened again and invalidated
RevisitedDays == {1}

\* cache.set for the first day that is not persisted, to memory and localStorage
SetNextDay ==
    \E data \in SessionData, i \in 1..MaxDays :
        /\ ~hasItem(localStorage, getStorageKey(DayKey(i)))
        /\ \A j \in 1..(i - 1) : hasItem(localStorage, getStorageKey(DayKey(j)))
        /\ SetEntry(DayKey(i), data, CacheTTL.TODOS_DAILY, TRUE, TRUE)

\* cache.get for a day opened again
GetFirstDays == \E i \in RevisitedDays : Get(DayKey(i))

\* cache.invalidate for the key of such a day
InvalidateFirstDays == \E i \in RevisitedDays : Invalidate(DayKey(i))

CapNext ==
    \/ SetNextDay
    \/ GetFirstDays
    \/ InvalidateFirstDays

CapSpec == Init /\ [][CapNext]_vars

\* The engine while one user works on the todo lists of two months, the
\* number of the first being a prefix of the number of the second
MonthDates == {[year |-> 2024, month |-> 1, day |-> 5],
               [year |-> 2024, month |-> 10, day |-> 5]}

\* The keys of the entries of these months
MonthKeys ==
    {buildEntryDatesCacheKey(CapUser, d.year, d.month) : d \in MonthDates}
    \cup {buildTodoCacheKey(CapUser, daily, getDailyId(d)) : d \in MonthDates}

MonthNext ==
    \/ \E d \in MonthDates : GetTodoDatesForMonth(CapUser, d)
    \/ \E d \in MonthDates, items \in SessionData : SaveTodoList(CapUser, d, items)
    \/ \E p \in promises, data \in SessionData : Resolve(p, data)
    \/ \E key \in MonthKeys : Invalidate(key)
    \/ Reload

MonthSpec == Init /\ [][MonthNext]_vars

\* ---------------------------------------------------------------------------
\* Properties
\* ---------------------------------------------------------------------------

\* Every key the data-access layer builds, for every user of the model
AllKeys == UNION {UserKeys(u) : u \in Uids}

\* The key is in neither tier
Gone(c, key) ==
    /\ ~MapHas(c.memoryCache, key)
    /\ ~hasItem(c.localStorage, getStorageKey(key))

\* The listener has finished handling the sign-in of U, and nothing it
\* started is still running
HandledSignIn(U) ==
    /\ authState = U
    /\ previousUidRef = U
    /\ user = U
    /\ suspended = <<>>

\* C1: once the listener has finished handling the sign-in of U, and no auth
\* event came after it, get on any key that embeds another user's uid returns
\* absent, whichever tier is asked.  Stated for the states in which no fetcher
\* is outstanding, so that a fetch racing with the purge is not what decides it.
CrossUserIsolation ==
    \A U \in Uids :
        (HandledSignIn(U) /\ promises = {}) =>
            \A U2 \in Uids \ {U} : \A key \in UserKeys(U2) :
                get(Cache, key, now).ret = Null

\* C2: right after invalidateByUser(U), every key that embeds U is absent
\* from the memory tier and from the persistent tier, and get on it returns
\* absent.
InvalidateByUserRemovesAll ==
    lastOp.op = "invalidateByUser" =>
        \A key \in AllKeys :
            includes(key, lastOp.arg) =>
                /\ Gone(Cache, key)
                /\ get(Cache, key, now).ret = Null

\* C2 witness: invalidateByUser removed entries of the user while no fetch was
\* in flight, and left another user's persisted entry in place
InvalidateByUserRemovedEntries ==
    /\ lastOp.op = "invalidateByUser"
    /\ lastOp.count > 0
    /\ promises = {}
    /\ \E key \in AllKeys :
        ~includes(key, lastOp.arg) /\ hasItem(localStorage, getStorageKey(key))

\* The entry under key is the same in both tiers before and after the step
EntryUnchanged(key) ==
    /\ MapHas(memoryCache', key) = MapHas(memoryCache, key)
    /\ MapHas(memoryCache, key) => MapGet(memoryCache', key) = MapGet(memoryCache, key)
    /\ hasItem(localStorage', getStorageKey(key)) = hasItem(localStorage, getStorageKey(key))
    /\ hasItem(localStorage, getStorageKey(key)) =>
           localStorage'[getStorageKey(key)] = localStorage[getStorageKey(key)]

\* The cache after the step
CacheAfter ==
    [memoryCache |-> memoryCache', localStorage |-> localStorage',
     pendingFetches |-> pendingFetches', stats |-> stats']

\* The valid entry under key is left as it was, and get on it still hits
StillHits(key) ==
    get(Cache, key, now).ret # Null =>
        /\ EntryUnchanged(key)
        /\ get(CacheAfter, key, now').ret = get(Cache, key, now).ret

\* C3: invalidateByUser(U1) removes only U1's entries: every valid entry under
\* a key built for another user U2 is left as it was in both tiers and a get on
\* it still hits, also when one of the two identifiers is a substring of the
\* other.
InvalidateByUserRemovesOnlyThatUser ==
    [][\A U1 \in Uids :
         InvalidateByUser(U1) =>
             \A U2 \in Uids \ {U1} : \A key \in UserKeys(U2) : StillHits(key)]_vars

\* The promises, without the number of callers attached to each
Fetchers(ps) == {[key |-> p.key, id |-> p.id, background |-> p.background] : p \in ps}

\* The promises that fetch key
FetchersOf(ps, key) == {p \in ps : p.key = key}

\* C5: getOrFetch calls issued on an uncached key before the first fetch
\* resolves cause one fetcher invocation: the first call starts exactly one
\* fetcher and registers it, every further call starts none and attaches to
\* that same promise, so all callers receive the value it resolves with.
DeDuplication ==
    [][\A u \in Uids, d \in Dates :
         LET key == buildTodoCacheKey(u, daily, getDailyId(d))
         IN  (GetTodoList(u, d) /\ get(Cache, key, now).ret = Null) =>
                 IF key \in DOMAIN pendingFetches
                 THEN /\ Fetchers(promises') = Fetchers(promises)
                      /\ pendingFetches' = pendingFetches
                      /\ \A p \in promises :
                           p.key = key /\ p.id = pendingFetches[key] =>
                               [p EXCEPT !.callers = p.callers + 1] \in promises'
                 ELSE /\ Cardinality(promises' \ promises) = 1
                      /\ promises \subseteq promises'
                      /\ \A p \in promises' \ promises :
                           /\ p.key = key /\ p.callers = 1 /\ ~p.background
                           /\ key \in DOMAIN pendingFetches'
                           /\ pendingFetches'[key] = p.id]_vars

\* C5 witness: two callers wait on the one fetcher of an uncached key
TwoCallersOneFetcher ==
    \E p \in promises :
        /\ p.callers >= 2
        /\ ~p.background
        /\ FetchersOf(promises, p.key) = {p}
        /\ p.key \in DOMAIN pendingFetches
        /\ get(Cache, p.key, now).ret = Null
        /\ lastOp = Op("getOrFetch", p.key)

\* C6: at most one fetcher invocation is outstanding per key, whatever calls
\* were made, clearAll, invalidate and invalidateByUser included.
SingleFlight ==
    \A p \in promises, q \in promises : p.key = q.key => p = q

\* C9: right after invalidate(T), get returns absent for the key of every
\* entry that was written with tag T, whether the entry was held in memory,
\* only in the persistent tier, or in both: no entry that can still be read
\* carries the tag.
TagInvalidationRemovesTagged ==
    lastOp.op = "invalidate" =>
        \A key \in AllKeys :
            LET r == get(Cache, key, now)
            IN  r.ret # Null =>
                    ~arrayIncludes(MapGet(r.c.memoryCache, key).tags, lastOp.arg)

\* A copy of the entry under key, in either tier, was written with the tag
WrittenWithTag(key, tag) ==
    \/ /\ MapHas(memoryCache, key)
       /\ arrayIncludes(MapGet(memoryCache, key).tags, tag)
    \/ /\ hasItem(localStorage, getStorageKey(key))
       /\ localStorage[getStorageKey(key)].json = "object"
       /\ arrayIncludes(parse(localStorage[getStorageKey(key)]).tags, tag)

\* C10: invalidate(T) leaves unchanged, in both tiers, every entry that was
\* not written with tag T, entries of other users included.
TagInvalidationLeavesOthers ==
    [][\A u \in Uids : \A T \in UserTags(u) :
         Invalidate(T) =>
             \A key \in AllKeys : ~WrittenWithTag(key, T) => EntryUnchanged(key)]_vars

\* The age of the entry the last set call wrote
Age == now - lastSet.timestamp

\* C4: TTL correctness for every entry, as claimed: after a set that stores an
\* entry, with any combination of useMemory and useStorage, get returns the
\* data while now - timestamp < ttl, and from now - timestamp >= ttl on get
\* returns absent and the entry is gone.
TTLCorrectness ==
    (lastSet.key # <<>> /\ (lastSet.useMemory \/ lastSet.useStorage)) =>
        LET r == get(Cache, lastSet.key, now)
        IN  IF Age < lastSet.ttl
            THEN r.ret = lastSet.data
            ELSE r.ret = Null /\ Gone(r.c, lastSet.key)

\* How long the entry of the last set call can be read: the ttl, stretched by
\* the multiplier of the persisted copy when the call wrote one
Lifetime ==
    IF lastSet.useStorage THEN lastSet.ttl * STORAGE_TTL_MULTIPLIER ELSE lastSet.ttl

\* C4, amended: after a set that writes at least one tier, on a key for which
\* the tier it does not write holds nothing, get returns the data while
\* now - timestamp < ttl for a memory-only set and while now - timestamp <
\* 2 * ttl when the set wrote the persistent tier; from then on get returns
\* absent and the entry is gone from both tiers.
TTLCorrectnessByTier ==
    (/\ lastSet.key # <<>>
     /\ lastSet.useMemory \/ lastSet.useStorage
     /\ lastSet.otherTierEmpty) =>
        LET r == get(Cache, lastSet.key, now)
        IN  IF Age < Lifetime
            THEN r.ret = lastSet.data
            ELSE r.ret = Null /\ Gone(r.c, lastSet.key)

\* C4 witness: an entry written to both tiers has been read by get after its
\* ttl had passed and before twice the ttl had
PersistedCopyOutlivesTTL ==
    /\ lastSet.key # <<>>
    /\ lastSet.useMemory /\ lastSet.useStorage
    /\ Age >= lastSet.ttl /\ Age < Lifetime
    /\ lastOp = Op("get", lastSet.key)
    /\ MapHas(memoryCache, lastSet.key)
    /\ MapGet(memoryCache, lastSet.key).data = lastSet.data

\* C7: in every reachable state the memory tier holds at most 100 entries,
\* whatever sequence of set and get, promotion included, produced the state.
MemoryBounded == Len(memoryCache) <= MAX_MEMORY_ENTRIES

\* C8: a set with useMemory for a key that is not in the memory tier, when the
\* tier holds exactly 100 entries, removes exactly one prior entry, the one
\* inserted earliest, leaves every other entry as it was, and leaves the tier
\* at 100 entries including the key.
EvictionOnInsert ==
    [][(/\ lastOp'.op = "set"
        /\ lastSet'.useMemory
        /\ Len(memoryCache) = MAX_MEMORY_ENTRIES
        /\ ~MapHas(memoryCache, lastOp'.arg)) =>
           /\ Len(memoryCache') = MAX_MEMORY_ENTRIES
           /\ MapHas(memoryCache', lastOp'.arg)
           /\ MapKeys(memoryCache) \ MapKeys(memoryCache') = {memoryCache[1].key}
           /\ \A k \in MapKeys(memoryCache) \ {memoryCache[1].key} :
                  MapGet(memoryCache', k) = MapGet(memoryCache, k)]_vars

\* C8 witness: the first day was invalidated and written again, so that the
\* second day is the entry inserted earliest; the set of the 101st day found
\* 100 entries and evicted the second day, which stays persisted
EarliestInsertedEvicted ==
    /\ lastOp = Op("set", DayKey(MAX_MEMORY_ENTRIES + 1))
    /\ Len(memoryCache) = MAX_MEMORY_ENTRIES
    /\ MapHas(memoryCache, DayKey(1))
    /\ ~MapHas(memoryCache, DayKey(2))
    /\ hasItem(localStorage, getStorageKey(DayKey(2)))
    /\ memoryCache[1].key = DayKey(3)
    /\ memoryCache[MAX_MEMORY_ENTRIES].key = DayKey(MAX_MEMORY_ENTRIES + 1)

\* C11: invalidate(k), k being the exact key of an existing entry, held in
\* memory, in the persistent tier or in both, removes that entry from both
\* tiers and leaves every other entry as it was, also an entry whose key
\* extends k as a prefix.
ExactKeyInvalidation ==
    [][\A k \in MonthKeys :
         (/\ Invalidate(k)
          /\ MapHas(memoryCache, k) \/ hasItem(localStorage, getStorageKey(k))) =>
             /\ Gone(CacheAfter, k)
             /\ \A k2 \in MonthKeys \ {k} : EntryUnchanged(k2)]_vars

\* The age of the entry a get on key returns exceeds 80% of the ttl the todo
\* wrappers write their entries with
StaleByWrittenTTL(key) ==
    LET r == get(Cache, key, now)
    IN  (now - MapGet(r.c.memoryCache, key).timestamp) * 10 > getPeriodTTL(daily) * 8

\* C12: getOrFetch with staleWhileRevalidate on a valid entry older than 80%
\* of the ttl it was written with returns the cached value without waiting on
\* a fetcher and starts exactly one background fetch; on a valid entry that
\* is not older than that it starts no fetch; and the value a background
\* fetch resolves with replaces the entry.  Stated for a key that has no
\* fetch registered in pendingFetches.
StaleWhileRevalidate ==
    [][/\ \A u \in Uids, d \in Dates :
            LET key == buildTodoCacheKey(u, daily, getDailyId(d))
            IN  (/\ GetTodoList(u, d)
                 /\ key \notin DOMAIN pendingFetches
                 /\ get(Cache, key, now).ret # Null) =>
                    IF StaleByWrittenTTL(key)
                    THEN /\ promises \subseteq promises'
                         /\ Cardinality(promises' \ promises) = 1
                         /\ \A p \in promises' \ promises : p.key = key /\ p.background
                    ELSE Fetchers(promises') = Fetchers(promises)
       /\ \A p \in promises, data \in Data :
            (Resolve(p, data) /\ p.background) =>
                get(CacheAfter, p.key, now').ret = data]_vars

\* C13: when the fetcher of a getOrFetch miss rejects, the error is thrown to
\* every caller waiting on that fetch, no entry is written to either tier, the
\* key's marker is removed from pendingFetches, so that a later getOrFetch on
\* the still uncached key starts a new fetch, and the markers of all other
\* keys are unchanged.
FetchFailure ==
    [][\A p \in promises :
         (Reject(p) /\ ~p.background) =>
             /\ lastOp'.count = p.callers
             /\ memoryCache' = memoryCache
             /\ localStorage' = localStorage
             /\ p.key \notin DOMAIN pendingFetches'
             /\ DOMAIN pendingFetches' = (DOMAIN pendingFetches) \ {p.key}
             /\ \A k \in DOMAIN pendingFetches' : pendingFetches'[k] = pendingFetches[k]
             /\ get(CacheAfter, p.key, now').ret = Null =>
                    getOrFetch(CacheAfter, promises', p.key, p.options, now').started # {}]_vars

\* C13 witness: a fetch with two callers has rejected; its key is in neither
\* tier and has no marker, the marker of another key is still in place
RejectedToTwoCallers ==
    /\ lastOp.op = "rejected"
    /\ lastOp.count >= 2
    /\ Gone(Cache, lastOp.arg)
    /\ lastOp.arg \notin DOMAIN pendingFetches
    /\ \E k \in DOMAIN pendingFetches :
           \E p \in promises : p.key = k /\ p.id = pendingFetches[k]

\* C14: when the persistent write fails inside set(key, data, {ttl,
\* useStorage: true}), set completes, the memory tier holds the new entry,
\* and a get within the ttl returns the data.
PersistenceFailureContained ==
    (lastSet.key # <<>> /\ lastSet.throws /\ lastSet.useMemory /\ Age < lastSet.ttl) =>
        /\ MapHas(memoryCache, lastSet.key)
        /\ MapGet(memoryCache, lastSet.key).data = lastSet.data
        /\ MapGet(memoryCache, lastSet.key).timestamp = lastSet.timestamp
        /\ get(Cache, lastSet.key, now).ret = lastSet.data

\* C14 witness: a get has read, before the ttl passed, the entry of a set
\* whose persistent write failed and left nothing persisted
ReadAfterFailedWrite ==
    /\ lastSet.key # <<>>
    /\ lastSet.throws /\ lastSet.useMemory
    /\ Age > 0 /\ Age < lastSet.ttl
    /\ lastOp = Op("get", lastSet.key)
    /\ ~hasItem(localStorage, getStorageKey(lastSet.key))
    /\ MapGet(memoryCache, lastSet.key).data = lastSet.data

\* The string stored for key is not empty and not the JSON text of a cache
\* entry
NotAnEntry(key) ==
    /\ hasItem(localStorage, getStorageKey(key))
    /\ localStorage[getStorageKey(key)].json \notin {"object", "empty"}

\* C15: when the (non-empty) string stored for a key is not the text of a
\* cache entry and the memory tier holds no entry for the key, get returns
\* absent without raising and removes the stored record
CorruptEntryRemoved ==
    \A key \in TTLKeys :
        (NotAnEntry(key) /\ ~MapHas(memoryCache, key)) =>
            LET r == get(Cache, key, now)
            IN  /\ r.ret = Null
                /\ ~hasItem(r.c.localStorage, getStorageKey(key))

\* The persisted key lies in the storage namespace of the engine
InNamespace(sk) == startsWith(sk, CACHE_PREFIX \o <<":">>)

\* C16: after clearAll the memory tier is empty, the pending-fetch table is
\* empty, no persisted key of the engine's namespace remains, and every
\* persisted key outside the namespace is kept with its value
ClearAllEmptiesEngine ==
    [][ClearAll =>
          /\ memoryCache' = <<>>
          /\ DOMAIN pendingFetches' = {}
          /\ \A sk \in DOMAIN localStorage' : ~InNamespace(sk)
          /\ \A sk \in DOMAIN localStorage :
                 ~InNamespace(sk) =>
                     /\ hasItem(localStorage', sk)
                     /\ localStorage'[sk] = localStorage[sk]]_vars

\* clearAll has just removed persisted entries and dropped a registered
\* fetch, and a record of cacheManager is still stored
ClearedBesideManagerRecords ==
    /\ lastOp.op = "clearAll" /\ lastOp.count >= 1
    /\ memoryCache = <<>> /\ DOMAIN pendingFetches = {}
    /\ \E p \in promises : ~p.background
    /\ \E sk \in DOMAIN localStorage : ~InNamespace(sk)

\* A call of logout by a signed-in user has returned
LogoutReturned == logoutRun.pc = "returned" /\ logoutRun.uid # NoUid

\* C17: every call of logout by a signed-in user that has returned has invoked
\* the provider's signOut, also when a step before it threw
LogoutAlwaysSignsOut ==
    LogoutReturned => arrayIncludes(logoutRun.steps, "signOut")

\* C18: when a step of logout threw, then once logout has returned the memory
\* tier and the pending-fetch table are empty and no persisted entry of the
\* engine remains
LogoutFallbackPurge ==
    (LogoutReturned /\ logoutRun.threw) =>
        /\ memoryCache = <<>>
        /\ DOMAIN pendingFetches = {}
        /\ \A sk \in DOMAIN localStorage : ~InNamespace(sk)

\* C19: a logout of a signed-in user in which no step throws invokes
\* invalidateByUser, the clearing of the auth entries, the provider's signOut
\* and the clearing of the lastUid marker in this order, and no logout invokes
\* signOut before invalidateByUser
LogoutStepOrder ==
    /\ (LogoutReturned /\ ~logoutRun.threw) =>
           logoutRun.steps =
               <<"invalidateByUser", "clearAuthCache", "signOut", "setLastKnownUid">>
    /\ logoutRun.uid # NoUid =>
           \A i \in 1..Len(logoutRun.steps) :
               logoutRun.steps[i] = "signOut" =>
                   \E j \in 1..(i - 1) : logoutRun.steps[j] = "invalidateByUser"

\* A logout of a signed-in user has run all four steps and returned
LogoutCompleted ==
    /\ LogoutReturned /\ ~logoutRun.threw
    /\ Len(logoutRun.steps) = 4
    /\ lastOp = Op("setLastKnownUid", logoutRun.uid)
    /\ ~hasItem(localStorage, LAST_UID_KEY)

\* The keys warmCache prefetches for a user
WarmKeys(uid) ==
    {buildGoalsCacheKey(uid)}
    \cup {buildHabitsCacheKey(uid, d.year, d.month) : d \in Dates}

\* C20: when the listener handles a sign-in of U while previousUidRef holds
\* another user P, then at the end of the handling no entry of P is in either
\* tier, U is the last-known uid, and every key warmCache prefetches for U is
\* cached or being fetched (the purge of P came before warmCache looked)
AccountSwitch ==
    [][\A U \in Uids :
          (/\ AuthStateChanged(U)
           /\ previousUidRef \notin {NoUid, U}
           /\ suspended' = suspended) =>
              /\ \A key \in UserKeys(previousUidRef) : Gone(CacheAfter, key)
              /\ getLastKnownUid(localStorage') = U
              /\ previousUidRef' = U
              /\ \A key \in WarmKeys(U) :
                     \/ key \in DOMAIN pendingFetches'
                     \/ get(CacheAfter, key, now').ret # Null]_vars

\* The listener has just handled a switch to another user and purged entries
\* of the previous one from the memory tier
SwitchedAndPurged ==
    /\ lastOp.op = "onAuthStateChanged" /\ lastOp.count >= 1
    /\ HandledSignIn(lastOp.arg)
    /\ getLastKnownUid(localStorage) = lastOp.arg
    /\ \A U \in Uids \ {lastOp.arg} : \A key \in UserKeys(U) : Gone(Cache, key)


\* C21: when the listener detects corruption while it handles a sign-in, then
\* before it goes on (before the marker is set and warmCache is called) the
\* memory tier is empty, the pending-fetch table is empty and no persisted
\* entry of the engine remains
CorruptionEscalation ==
    [][\A U \in Uids :
          (AuthStateChanged(U) /\ Len(suspended') > Len(suspended)) =>
              /\ memoryCache' = <<>>
              /\ DOMAIN pendingFetches' = {}
              /\ \A sk \in DOMAIN localStorage' : ~InNamespace(sk)]_vars


\* C22: detectCacheCorruption(current) returns true whenever a key of some
\* user is persisted under the engine's storage namespace and either current
\* is null or that user is not current
CorruptionDetectionRule ==
    \A current \in Uids \cup {NoUid} :
        (\E u \in Uids \ {current} : \E key \in UserKeys(u) :
             hasItem(localStorage, getStorageKey(key))) =>
            detectCacheCorruption(localStorage, current)


\* The listener finishes the handling of a sign-in of U in this step
FinishesSignIn(U) ==
    \/ AuthStateChanged(U) /\ suspended' = suspended
    \/ \E i \in 1..Len(suspended) : suspended[i] = U /\ ResumeSignIn(i)

\* C23: at the end of the handling of a sign-in of U the lastUid marker holds U
\* and each key of warmCache is cached or being fetched; when the fetcher of
\* a key of warmCache rejects, the error reaches no caller that does not catch
\* it, the listener's state and the marker stay as they are, and the
\* key is left in neither tier and not pending
WarmingBestEffort ==
    [][/\ \A U \in Uids :
             FinishesSignIn(U) =>
                 /\ getLastKnownUid(localStorage') = U
                 /\ user' = U
                 /\ \A key \in WarmKeys(U) :
                        \/ key \in DOMAIN pendingFetches'
                        \/ get(CacheAfter, key, now').ret # Null
       /\ \A p \in promises :
             (Reject(p) /\ \E U \in Uids : p.key \in WarmKeys(U)) =>
                 /\ lastOp'.count = 0
                 /\ <<user, previousUidRef, suspended>>' = <<user, previousUidRef, suspended>>
                 /\ getLastKnownUid(localStorage') = getLastKnownUid(localStorage)
                 /\ Gone(CacheAfter, p.key)
                 /\ p.key \notin DOMAIN pendingFetches']_vars

\* A fetcher of warmCache has rejected after the sign-in was handled: the user
\* is signed in and recorded, the key is in neither tier
WarmFetcherRejected ==
    /\ lastOp.op = "rejected" /\ lastOp.count = 0
    /\ user # NoUid /\ HandledSignIn(user)
    /\ getLastKnownUid(localStorage) = user
    /\ lastOp.arg \in WarmKeys(user)
    /\ Gone(Cache, lastOp.arg)


\* C24: when a fetch or background refresh for a key of U resolves right after
\* invalidateByUser(U) or clearAll() ran while it was in flight, the key is in
\* neither tier afterwards
PurgeDiscardsLateResult ==
    [][\A p \in promises, data \in Data :
          (/\ Resolve(p, data)
           /\ \/ lastOp.op = "clearAll"
              \/ lastOp.op = "invalidateByUser" /\ includes(p.key, lastOp.arg)) =>
              Gone(CacheAfter, p.key)]_vars


\* The memory tier holds a valid entry for the key
ValidInMemory(key) ==
    MapHas(memoryCache, key) /\ isValid(MapGet(memoryCache, key), now)

\* The persistent tier holds a valid entry for the key
ValidInStorage(key) ==
    /\ hasItem(localStorage, getStorageKey(key))
    /\ localStorage[getStorageKey(key)].json = "object"
    /\ isValid(parse(localStorage[getStorageKey(key)]), now)

\* C25: with no valid memory entry and a valid persisted entry, get returns the
\* persisted data, copies the entry into the memory tier and counts one memory
\* miss and one storage hit; the get that follows at once is served from
\* memory and counts one memory hit only; with no valid entry in either tier
\* get returns absent and counts one memory miss and one storage miss
TwoTierRead ==
    \A key \in TTLKeys :
        LET r == get(Cache, key, now)
            r2 == get(r.c, key, now)
        IN  /\ (~ValidInMemory(key) /\ ValidInStorage(key)) =>
                  /\ r.ret = localStorage[getStorageKey(key)].data
                  /\ MapHas(r.c.memoryCache, key)
                  /\ MapGet(r.c.memoryCache, key) = parse(localStorage[getStorageKey(key)])
                  /\ r.counted = [memoryHits |-> 0, memoryMisses |-> 1,
                                  storageHits |-> 1, storageMisses |-> 0]
                  /\ r2.ret = r.ret
                  /\ r2.c = r.c
                  /\ r2.counted = [memoryHits |-> 1, memoryMisses |-> 0,
                                   storageHits |-> 0, storageMisses |-> 0]
            /\ (~ValidInMemory(key) /\ ~ValidInStorage(key)) =>
                  /\ r.ret = Null
                  /\ r.counted = [memoryHits |-> 0, memoryMisses |-> 1,
                                  storageHits |-> 0, storageMisses |-> 1]

\* get has just promoted the persisted copy of the entry that set wrote: the
\* memory tier holds it with the stretched ttl and serves the next read
PromotedByGet ==
    /\ lastSet.key # <<>>
    /\ lastOp = Op("get", lastSet.key)
    /\ MapHas(memoryCache, lastSet.key)
    /\ MapGet(memoryCache, lastSet.key).ttl = lastSet.ttl * STORAGE_TTL_MULTIPLIER
    /\ get(Cache, lastSet.key, now).counted.memoryHits = 1


\* C26: a sweep removes from the memory tier every entry whose age has reached
\* its ttl, keeps every valid entry as it is and in its place, and leaves
\* localStorage as it is; after it every memory entry is valid
PeriodicSweep ==
    [][Cleanup =>
          /\ memoryCache' =
                 SelectSeq(memoryCache,
                           LAMBDA x : ~(now - x.entry.timestamp >= x.entry.ttl))
          /\ \A key \in SweepKeys :
                 /\ (MapHas(memoryCache, key)
                        /\ now - MapGet(memoryCache, key).timestamp
                               >= MapGet(memoryCache, key).ttl)
                        => ~MapHas(memoryCache', key)
                 /\ ValidInMemory(key) =>
                        /\ MapHas(memoryCache', key)
                        /\ MapGet(memoryCache', key) = MapGet(memoryCache, key)
                 /\ MapHas(memoryCache', key) =>
                        isValid(MapGet(memoryCache', key), now')
          /\ localStorage' = localStorage]_vars

\* A sweep has just removed an expired entry whose persisted copy is still
\* stored, and kept a valid one
SweptExpiredKeptValid ==
    /\ lastOp.op = "cleanup" /\ lastOp.count >= 1
    /\ \E key \in SweepKeys :
           ~MapHas(memoryCache, key) /\ hasItem(localStorage, getStorageKey(key))
    /\ \E key \in SweepKeys : ValidInMemory(key)


\* C27: whatever value v a fetcher resolves to (null included), right after a
\* getOrFetch fetch for a key has resolved with v, and one step of the clock
\* later (within the ttl), a further getOrFetch for the key returns v and
\* invokes no fetcher, and a prefetch for the key invokes no fetcher
FetchedValueCached ==
    [][\A p \in promises, v \in GoalsFetched :
          (Resolve(p, v) /\ ~p.background) =>
              \A t \in {now'} \cup {now' + d : d \in Ticks} :
                  LET g == getOrFetch(CacheAfter, promises', p.key, p.options, t)
                      f == prefetch(CacheAfter, promises', p.key, p.options, t)
                  IN  /\ g.ret = v
                      /\ g.started = {}
                      /\ g.promise = 0
                      /\ f.started = {}]_vars


\* C28: when saveTodoList has written v under a key while a fetch for the
\* key, started earlier by getOrFetch, is in flight, then after that fetch
\* settles (resolves with any data, or rejects) get on the key returns v
NoLostUpdate ==
    [][\A p \in promises :
          (/\ lastOp = Op("saveTodoList", p.key)
           /\ MapHas(memoryCache, p.key)
           /\ Reject(p) \/ \E data \in Data : Resolve(p, data)) =>
              get(CacheAfter, p.key, now').ret = MapGet(memoryCache, p.key).data]_vars


\* C29: when a sign-out event was delivered while the handling of a sign-in
\* for U was suspended in clearAllCache, then once the suspended handler has
\* finished too the current user is null, the lastUid marker is absent and the
\* resumed handler has started no fetcher (no cache warming for U)
AuthEventsSerialized ==
    [][\A i \in 1..Len(suspended) :
          (/\ authState = NoUid
           /\ ResumeSignIn(i)
           /\ suspended' = <<>>) =>
              /\ user' = NoUid
              /\ previousUidRef' = NoUid
              /\ getLastKnownUid(localStorage') = NoUid
              /\ promises' = promises]_vars


\* C30: after every public cache operation and after every sweep,
\* getStats().totalEntries equals the number of entries in the memory tier
StatsInStep == stats.totalEntries = Len(memoryCache)

====
